---- MODULE Spec2Model ----
(***************************************************************************)
(* produce_lock_info.c: the report parser (lookup_data / read_data), the   *)
(* per-stack record store (lock_data), the consolidation by called_from    *)
(* (organize_data) and the ranking / rendering step (dump_data), with the  *)
(* option handling of main that feeds them.                                *)
(*                                                                         *)
(* C strings are sequences of character codes without the closing NUL, so  *)
(* that strcmp, strchr, strrchr, strstr and atoll are computed as libc     *)
(* computes them.  The arrays lock_data and cons_data are sequences (slot  *)
(* i of the C array is element i+1), the long data[8] of a lock_info is a  *)
(* function on 0..7.                                                       *)
(***************************************************************************)
EXTENDS Integers, Sequences, FiniteSets, Bags, TLC

(***************************************************************************)
(* Bounds of the model.                                                    *)
(***************************************************************************)
\* entries (well-formed or malformed) a trace file of SpecParse holds
MaxEntries == 3

(***************************************************************************)
(* Characters                                                              *)
(***************************************************************************)
NL == 10
SP == 32
COLON == 58
EQ == 61
AT == 64
LB == 91
RB == 93
MINUS == 45
PLUS == 43
ZERO == 48

isspace(c) == c \in {9, 10, 11, 12, 13, 32}

isdigit(c) == c \in ZERO .. (ZERO + 9)

(***************************************************************************)
(* libc string functions                                                   *)
(***************************************************************************)
\* strchr: position (1-based) of the first c in s, 0 for NULL
strchr(s, c) ==
    IF \E i \in 1..Len(s) : s[i] = c
    THEN CHOOSE i \in 1..Len(s) : s[i] = c /\ \A j \in 1..(i - 1) : s[j] # c
    ELSE 0

\* strrchr: position of the last c in s, 0 for NULL
strrchr(s, c) ==
    IF \E i \in 1..Len(s) : s[i] = c
    THEN CHOOSE i \in 1..Len(s) : s[i] = c /\ \A j \in (i + 1)..Len(s) : s[j] # c
    ELSE 0

\* strstr(s, "[]") # NULL
strstr_brackets(s) ==
    \E i \in 1..(Len(s) - 1) : s[i] = LB /\ s[i + 1] = RB

\* strcmp: the sign of the first differing unsigned char, the shorter string
\* (its NUL) being the smaller
strcmp(a, b) ==
    LET m == IF Len(a) < Len(b) THEN Len(a) ELSE Len(b)
        D == {i \in 1..m : a[i] # b[i]}
    IN  IF D = {}
        THEN (IF Len(a) < Len(b) THEN -1 ELSE IF Len(a) > Len(b) THEN 1 ELSE 0)
        ELSE LET k == CHOOSE i \in D : \A j \in D : i <= j
             IN  IF a[k] < b[k] THEN -1 ELSE 1

RECURSIVE SkipSpace(_)
SkipSpace(s) ==
    IF s # <<>> /\ isspace(Head(s)) THEN SkipSpace(Tail(s)) ELSE s

RECURSIVE DigitsValue(_, _)
DigitsValue(s, acc) ==
    IF s = <<>> \/ ~isdigit(Head(s)) THEN acc
    ELSE DigitsValue(Tail(s), acc * 10 + (Head(s) - ZERO))

\* atoll / atoi: leading white space, an optional sign, then digits up to the
\* first other character (the values of the model stay far inside long and int)
atoll(s) ==
    LET t == SkipSpace(s)
    IN  IF t = <<>> THEN 0
        ELSE IF Head(t) = MINUS THEN 0 - DigitsValue(Tail(t), 0)
        ELSE IF Head(t) = PLUS THEN DigitsValue(Tail(t), 0)
        ELSE DigitsValue(t, 0)

atoi(s) == atoll(s)

(***************************************************************************)
(* bsearch and qsort                                                       *)
(***************************************************************************)
\* bsearch over the keys of a sorted array (keys[i] is the compared field of
\* element i): the halving search of libc; the element found, or 0 for NULL.
\* On an array that is not sorted it may miss an element that is there.
RECURSIVE bsearch_range(_, _, _, _)
bsearch_range(key, keys, l, u) ==
    IF l >= u THEN 0
    ELSE LET idx == (l + u) \div 2
             c == strcmp(key, keys[idx + 1])
         IN  IF c < 0 THEN bsearch_range(key, keys, l, idx)
             ELSE IF c > 0 THEN bsearch_range(key, keys, idx + 1, u)
             ELSE idx + 1

bsearch(key, keys) == bsearch_range(key, keys, 0, Len(keys))

\* The orders qsort may leave n elements in: every permutation of 1..n that
\* puts i before j only if le[i][j] (compar(i, j) <= 0).  Elements that compare
\* equal may end in any order.
RECURSIVE Orders(_, _)
Orders(I, le) ==
    IF I = {} THEN {<<>>}
    ELSE UNION {{<<i>> \o t : t \in Orders(I \ {i}, le)} :
                  i \in {i \in I : \A j \in I : le[i][j]}}

qsort(base, compar(_, _)) ==
    LET n == Len(base)
        le == [i \in 1..n |-> [j \in 1..n |-> compar(base[i], base[j]) <= 0]]
    IN  {[k \in 1..n |-> base[o[k]]] : o \in Orders(1..n, le)}

(***************************************************************************)
(* lock_info and the comparison routines                                   *)
(***************************************************************************)
ACQ_DATA_HOLD_AVG == 0
ACQ_DATA_HOLD_MAX == 1
ACQ_DATA_HOLD_COUNT == 2
ACQ_DATA_TOTAL_TIME == 3
HD_DATA_HOLD_AVG == 4
HD_DATA_HOLD_MAX == 5
HD_DATA_HOLD_COUNT == 6
HD_DATA_TOTAL_TIME == 7

ACQS_SPENT == 6

\* bzero of a struct lock_info: the data fields (the two pointers are set by
\* the caller right after)
ZeroData == [i \in 0..7 |-> 0]

sort_func(l1, l2) == strcmp(l1.called_from, l2.called_from)

sort_stack(l1, l2) == strcmp(l1.stack, l2.stack)

ThreeWayDesc(a, b) == IF a < b THEN 1 ELSE IF a > b THEN -1 ELSE 0

sort_aq_spin(l1, l2) ==
    ThreeWayDesc(l1.data[ACQ_DATA_TOTAL_TIME], l2.data[ACQ_DATA_TOTAL_TIME])

sort_aq_average(l1, l2) ==
    ThreeWayDesc(l1.data[ACQ_DATA_HOLD_AVG], l2.data[ACQ_DATA_HOLD_AVG])

sort_aq_count(l1, l2) ==
    ThreeWayDesc(l1.data[ACQ_DATA_HOLD_COUNT], l2.data[ACQ_DATA_HOLD_COUNT])

sort_aq_max(l1, l2) ==
    ThreeWayDesc(l1.data[ACQ_DATA_HOLD_MAX], l2.data[ACQ_DATA_HOLD_MAX])

sort_hold_avg(l1, l2) ==
    ThreeWayDesc(l1.data[HD_DATA_HOLD_AVG], l2.data[HD_DATA_HOLD_AVG])

sort_hold_count(l1, l2) ==
    ThreeWayDesc(l1.data[HD_DATA_HOLD_COUNT], l2.data[HD_DATA_HOLD_COUNT])

sort_hold_max(l1, l2) ==
    ThreeWayDesc(l1.data[HD_DATA_HOLD_MAX], l2.data[HD_DATA_HOLD_MAX])

sort_hold_total(l1, l2) ==
    ThreeWayDesc(l1.data[HD_DATA_TOTAL_TIME], l2.data[HD_DATA_TOTAL_TIME])

(***************************************************************************)
(* read_data                                                               *)
(***************************************************************************)
\* an array of a fresh stack frame, not yet written
UNINIT == <<-1>>

\* remove_new_line without its else branch: a line without newline passes
remove_new_line_lenient(buffer) ==
    LET p == strchr(buffer, NL)
    IN  [ok |-> TRUE,
         buffer |-> IF p > 0 THEN SubSeq(buffer, 1, p - 1) \o <<SP>>
                    ELSE buffer \o <<SP>>]

\* remove_new_line: the first '\n' becomes ' ' and the string ends after it;
\* <<>> wrapped in a record tells the missing newline (the exit)
remove_new_line(buffer) ==
    LET p == strchr(buffer, NL)
    IN  IF p > 0
        THEN [ok |-> TRUE, buffer |-> SubSeq(buffer, 1, p - 1) \o <<SP>>]
        ELSE [ok |-> FALSE, buffer |-> buffer]

\* ptr = strrchr(buffer, ' '); ptr[0] = ':'; ptr[1] = '\0'
ColonAtLastSpace(buffer) ==
    SubSeq(buffer, 1, strrchr(buffer, SP) - 1) \o <<COLON>>

\* fgets(buffer, 1024, fd): the next line of the file; at end of file the
\* buffer is left as it was, which for an array never written is whatever the
\* stack held (garbage)
fgets(buffer, lines, garbage) ==
    IF lines # <<>>
    THEN [buffer |-> Head(lines), rest |-> Tail(lines)]
    ELSE [buffer |-> IF buffer = UNINIT THEN garbage ELSE buffer, rest |-> <<>>]

\* the locals of read_data on entry
ReadDataEntry ==
    [buffer |-> UNINIT, func_called |-> UNINIT, stack_in |-> UNINIT,
     depth |-> 0, have_function |-> 0]

\* lines 323-359: find the record of stack_in or append one and sort, then
\* set or add the value of this section
AddEntryNoSort(lock, stack_in, func_called, index, value) ==
    LET n == Len(lock)
        found == IF n = 0 THEN 0
                 ELSE bsearch(stack_in, [i \in 1..n |-> lock[i].stack])
    IN  IF found = 0
        THEN Append(lock, [stack |-> stack_in, called_from |-> func_called,
                           data |-> [ZeroData EXCEPT ![index] = value]])
        ELSE [lock EXCEPT ![found].data[index] = @ + value]

AddEntryOverwrite(lock, stack_in, func_called, index, value) ==
    LET n == Len(lock)
        found == IF n = 0 THEN 0
                 ELSE bsearch(stack_in, [i \in 1..n |-> lock[i].stack])
    IN  IF found = 0
        THEN CHOOSE s \in qsort(Append(lock,
                 [stack |-> stack_in, called_from |-> func_called,
                  data |-> [ZeroData EXCEPT ![index] = value]]), sort_stack) : TRUE
        ELSE [lock EXCEPT ![found].data[index] = value]

AddEntry(lock, stack_in, func_called, index, value) ==
    LET n == Len(lock)
        found == IF n = 0 THEN 0
                 ELSE bsearch(stack_in, [i \in 1..n |-> lock[i].stack])
    IN  IF found = 0
        THEN \* the stacks of lock_data differ, so qsort has one outcome
             CHOOSE s \in qsort(Append(lock,
                 [stack |-> stack_in, called_from |-> func_called,
                  data |-> [ZeroData EXCEPT ![index] = value]]), sort_stack) : TRUE
        ELSE [lock EXCEPT ![found].data[index] = @ + value]

\* One pass of the for (;;) loop of read_data, lines 276-375, on the locals l,
\* the store lock and the unread lines of the file (<<>>: end of file).
\* branch names the path taken: "end" (break), "empty", "at", "function",
\* "term", "frame" (the five continues) or "malformed" (exit(EXIT_FAILURE)).
read_data_iter(l, lock, lines, sdepth, index, garbage) ==
    LET g1 == fgets(l.buffer, lines, garbage)
        b1 == g1.buffer
        same == [l |-> [l EXCEPT !.buffer = b1], lock |-> lock, rest |-> g1.rest]
    IN  IF b1 # <<>> /\ b1[1] = EQ
        THEN same @@ [branch |-> "end"]
        ELSE IF strstr_brackets(b1)
        THEN same @@ [branch |-> "empty"]
        ELSE IF b1 # <<>> /\ b1[1] = AT
        THEN [l |-> [l EXCEPT !.buffer = b1, !.have_function = 0],
              lock |-> lock, rest |-> g1.rest, branch |-> "at"]
        ELSE
        LET r1 == remove_new_line(b1) IN
        IF ~r1.ok
        THEN same @@ [branch |-> "malformed"]
        ELSE IF l.have_function = 0
        THEN LET g2 == fgets(r1.buffer, g1.rest, garbage)
                 r2 == remove_new_line(g2.buffer)
                 fn == ColonAtLastSpace(r2.buffer)
             IN  IF ~r2.ok
                 THEN [l |-> [l EXCEPT !.buffer = g2.buffer, !.stack_in = r1.buffer],
                       lock |-> lock, rest |-> g2.rest, branch |-> "malformed"]
                 ELSE [l |-> [buffer |-> fn, func_called |-> fn,
                              stack_in |-> r1.buffer \o fn,
                              depth |-> 1, have_function |-> 1],
                       lock |-> lock, rest |-> g2.rest, branch |-> "function"]
        ELSE IF r1.buffer[1] = RB
        THEN LET p == strchr(r1.buffer, COLON)
                 value == atoll(SubSeq(r1.buffer, p + 1, Len(r1.buffer)))
             IN  IF p = 0
                 THEN [l |-> [l EXCEPT !.buffer = r1.buffer, !.depth = 0],
                       lock |-> lock, rest |-> g1.rest, branch |-> "malformed"]
                 ELSE [l |-> [l EXCEPT !.buffer = r1.buffer, !.depth = 0],
                       lock |-> AddEntry(lock, l.stack_in, l.func_called, index, value),
                       rest |-> g1.rest, branch |-> "term"]
        ELSE IF l.depth < sdepth
        THEN LET fr == ColonAtLastSpace(r1.buffer)
             IN  [l |-> [l EXCEPT !.buffer = fr,
                                  !.stack_in = @ \o r1.buffer,
                                  !.depth = @ + 1,
                                  !.func_called = @ \o fr],
                  lock |-> lock, rest |-> g1.rest, branch |-> "frame"]
        ELSE [l |-> [l EXCEPT !.buffer = r1.buffer, !.stack_in = @ \o r1.buffer],
              lock |-> lock, rest |-> g1.rest, branch |-> "frame"]

\* lookup_data, lines 404-424: the data index of the 1st..6th call of read_data
SectionIndex ==
    <<ACQ_DATA_HOLD_AVG, ACQ_DATA_HOLD_MAX, ACQ_DATA_HOLD_COUNT,
      HD_DATA_HOLD_AVG, HD_DATA_HOLD_MAX, HD_DATA_HOLD_COUNT>>

NumSections == 6

(***************************************************************************)
(* organize_data                                                           *)
(***************************************************************************)
\* C's long division: the quotient truncated toward zero
CDiv(a, b) ==
    LET q == (IF a < 0 THEN 0 - a ELSE a) \div (IF b < 0 THEN 0 - b ELSE b)
    IN  IF (a < 0) = (b < 0) THEN q ELSE 0 - q

\* lines 468-488: fold the stack record wptr into the entry entry_add
AddThingsUp(entry_add, wptr) ==
    LET e == entry_add.data
        w == wptr.data
        acq_new == e[ACQ_DATA_HOLD_AVG] * e[ACQ_DATA_HOLD_COUNT]
                     + w[ACQ_DATA_HOLD_AVG] * w[ACQ_DATA_HOLD_COUNT]
        acq_cnt == e[ACQ_DATA_HOLD_COUNT] + w[ACQ_DATA_HOLD_COUNT]
        hd_new == e[HD_DATA_HOLD_AVG] * e[HD_DATA_HOLD_COUNT]
                     + w[HD_DATA_HOLD_AVG] * w[HD_DATA_HOLD_COUNT]
        hd_cnt == e[HD_DATA_HOLD_COUNT] + w[HD_DATA_HOLD_COUNT]
    IN  [entry_add EXCEPT !.data =
          [e EXCEPT
            ![ACQ_DATA_HOLD_COUNT] = acq_cnt,
            ![ACQ_DATA_HOLD_AVG] = IF acq_cnt # 0 THEN CDiv(acq_new, acq_cnt) ELSE @,
            ![HD_DATA_HOLD_COUNT] = hd_cnt,
            ![HD_DATA_HOLD_AVG] = IF hd_cnt # 0 THEN CDiv(hd_new, hd_cnt) ELSE @,
            ![ACQ_DATA_HOLD_MAX] =
                IF @ < w[ACQ_DATA_HOLD_MAX] THEN w[ACQ_DATA_HOLD_MAX] ELSE @,
            ![HD_DATA_HOLD_MAX] =
                IF @ < w[HD_DATA_HOLD_MAX] THEN w[HD_DATA_HOLD_MAX] ELSE @]]

\* The for loop of organize_data, lines 443-489, from record count (0-based)
\* of the sorted lock on; cons holds the allocated slots of cons_data, n is
\* number_cons_entries.  The first record takes slot 0 of a fresh array and
\* leaves number_cons_entries as it is; a record whose called_from bsearch
\* does not find among the first n entries takes slot n after n is raised.
RECURSIVE organize_loop(_, _, _, _)
organize_loop(lock, count, cons, n) ==
    IF count >= Len(lock)
    THEN [cons_data |-> cons, number_cons_entries |-> n]
    ELSE LET wptr == lock[count + 1]
             found == IF count = 0 THEN 0
                      ELSE bsearch(wptr.called_from,
                                   [i \in 1..n |-> cons[i].called_from])
             add_entry == count = 0 \/ found = 0
             n1 == IF count # 0 /\ found = 0 THEN n + 1 ELSE n
             slot == IF count = 0 THEN 1 ELSE IF found = 0 THEN n1 ELSE found
             entry_add == IF add_entry
                          THEN [called_from |-> wptr.called_from, data |-> ZeroData]
                          ELSE cons[slot]
             summed == AddThingsUp(entry_add, wptr)
             cons1 == IF slot > Len(cons) THEN Append(cons, summed)
                      ELSE [cons EXCEPT ![slot] = summed]
         IN  organize_loop(lock, count + 1, cons1, n1)

(***************************************************************************)
(* dump_data                                                               *)
(***************************************************************************)
\* a char * that points nowhere
NULL == <<0>>

\* (size_t) i < n for an int i and a size_t n, as C compares them at line 551:
\* a negative i converts to 2^64 + i, which no number of entries reaches (the
\* counts of the model stay below 2^31, and 2^64 itself is beyond TLC's
\* integers, so the wrapped value is compared by its sign)
SizeTLess(i, n) == i >= 0 /\ i < n

\* lines 514-519: the two totals of an entry
WithTotals(e) ==
    [e EXCEPT !.data =
       [e.data EXCEPT
          ![ACQ_DATA_TOTAL_TIME] = e.data[ACQ_DATA_HOLD_AVG] * e.data[ACQ_DATA_HOLD_COUNT],
          ![HD_DATA_TOTAL_TIME] = e.data[HD_DATA_HOLD_AVG] * e.data[HD_DATA_HOLD_COUNT]]]

\* the switch of lines 521-547 with every case taken for case 6
SortedByAverageOnly(base, sort_option) == qsort(base, sort_aq_average)

\* lines 521-547: the orders the qsort of the chosen case may leave
SortedBy(base, sort_option) ==
    CASE sort_option = 0 -> qsort(base, sort_hold_count)
      [] sort_option = 1 -> qsort(base, sort_hold_max)
      [] sort_option = 2 -> qsort(base, sort_hold_avg)
      [] sort_option = 3 -> qsort(base, sort_hold_total)
      [] sort_option = 4 -> qsort(base, sort_aq_count)
      [] sort_option = 5 -> qsort(base, sort_aq_max)
      [] sort_option = 6 -> qsort(base, sort_aq_average)
      [] OTHER -> qsort(base, sort_aq_spin)

\* the comparison of lines 551-552 left out: every entry stays
TruncatedNever(numb_to_show, n) == n

\* lines 551-552: numb_to_show is an int, number_cons_entries a size_t
Truncated(numb_to_show, n) ==
    IF SizeTLess(numb_to_show, n) THEN numb_to_show ELSE n

\* lines 556-558: the called_from string up to its first ':'
CutAtColon(called_from) ==
    LET p == strchr(called_from, COLON)
    IN  IF p > 0 THEN SubSeq(called_from, 1, p - 1) ELSE called_from

\* line 567 with strncmp over the length of caller in place of strcmp
PassesCallerPrefix(name, caller) ==
    LET ptr1 == SkipSpace(name)
        p2 == strchr(ptr1, SP)
        cut == IF p2 > 0 THEN SubSeq(ptr1, 1, p2 - 1) ELSE ptr1
    IN  \/ caller = NULL
        \/ Len(cut) >= Len(caller) /\ SubSeq(cut, 1, Len(caller)) = caller

\* lines 560-568: does the entry pass the -C filter
PassesCaller(name, caller) ==
    LET ptr1 == SkipSpace(name)
        p2 == strchr(ptr1, SP)
        cut == IF p2 > 0 THEN SubSeq(ptr1, 1, p2 - 1) ELSE ptr1
    IN  caller = NULL \/ strcmp(cut, caller) = 0

\* lines 576-587: the frames after the first, one line each
RECURSIVE RestFrames(_)
RestFrames(ptr) ==
    IF ptr = <<>> THEN <<>>
    ELSE LET p1 == strchr(ptr, COLON)
         IN  IF p1 > 0
             THEN <<[kind |-> "frame", text |-> SubSeq(ptr, 1, p1 - 1), data |-> <<>>]>>
                    \o RestFrames(SubSeq(ptr, p1 + 1, Len(ptr)))
             ELSE <<[kind |-> "frame", text |-> ptr, data |-> <<>>]>>

\* line 571: the columns of a row
RowOf(e) ==
    [kind |-> "row", text |-> CutAtColon(e.called_from),
     data |-> <<e.data[HD_DATA_HOLD_COUNT], e.data[HD_DATA_HOLD_MAX],
                e.data[HD_DATA_HOLD_AVG], e.data[ACQ_DATA_HOLD_COUNT],
                e.data[ACQ_DATA_HOLD_MAX], e.data[ACQ_DATA_HOLD_AVG]>>]

\* lines 553-590: what the loop prints for entries count+1 .. n of cons
RECURSIVE DumpRows(_, _, _, _)
DumpRows(cons, count, n, caller) ==
    IF count >= n THEN <<>>
    ELSE LET e == cons[count + 1]
             p == strchr(e.called_from, COLON)
             rest == IF p > 0 THEN SubSeq(e.called_from, p + 1, Len(e.called_from))
                     ELSE <<>>
         IN  (IF PassesCaller(CutAtColon(e.called_from), caller)
              THEN <<RowOf(e)>> \o RestFrames(rest)
              ELSE <<>>)
             \o DumpRows(cons, count + 1, n, caller)

HeaderLine == [kind |-> "header", text |-> <<>>, data |-> <<>>]

(***************************************************************************)
(* The trace file: what the tracer script prints (bpftrace_create, the END *)
(* block) and read_data expects.  A section is a run of entries            *)
(*     @name[ / frame / frame ... / ]: value                               *)
(* closed by a line of '=' that opens the two header lines of the next.    *)
(***************************************************************************)
Frame_m == <<SP, 109>>
Frame_f == <<SP, 102>>
Frame_g == <<SP, 103>>
Frame_h == <<SP, 104>>
Frame_gh == <<SP, 103, 104>>
Frame_x == <<SP, 120>>
Frame_y == <<SP, 121>>

AtLine == <<AT, LB, NL>>
EmptyLine == <<AT, LB, RB, COLON, SP, ZERO, NL>>
EndLine == <<EQ, NL>>
TitleLine == <<116, NL>>

RECURSIVE Decimal(_)
Decimal(n) ==
    IF n < 10 THEN <<ZERO + n>> ELSE Decimal(n \div 10) \o <<ZERO + (n % 10)>>

TermLine(v) == <<RB, COLON, SP>> \o Decimal(v) \o <<NL>>

EntryLines(frames, v) ==
    <<AtLine>> \o [i \in 1..Len(frames) |-> frames[i] \o <<NL>>] \o <<TermLine(v)>>

\* the line without its last character, the newline
NoNewline(line) == SubSeq(line, 1, Len(line) - 1)

\* a ']' line without the ':' before the value
NoColonLine(v) == <<RB, SP>> \o Decimal(v) \o <<NL>>

Drop(s, k) == IF k >= Len(s) THEN <<>> ELSE SubSeq(s, k + 1, Len(s))

\* the stacks of the files of SpecParse
ParseStacks == {<<Frame_m, Frame_g>>, <<Frame_m, Frame_f, Frame_x>>}

\* the values of their entries
ParseValues == {1, 2}

\* lines: the unread lines; e: the file ends after them; fd: the bag of the
\* well-formed entries of the file; cr: the entry lines belongs to, if any
Piece(lines, e, fd, cr, adv, badleft) ==
    [lines |-> lines, eof |-> e, fed |-> fd, cur |-> cr, adv |-> adv,
     bad |-> badleft]

\* What the file may hold next, in section fs, after used entries: an entry,
\* an empty-collection line, the end of the section (with the two header lines
\* of the next, or with the end of the file right after it), or the end of the
\* file.
Pieces(fs, fd) ==
    (IF BagCardinality(fd) < MaxEntries /\ fs <= NumSections
     THEN {Piece(EntryLines(st, v), FALSE,
                 fd (+) SetToBag({[sec |-> fs, frames |-> st, value |-> v]}),
                 {[sec |-> fs, frames |-> st, value |-> v]}, 0, 0) :
             st \in ParseStacks, v \in ParseValues}
     ELSE {})
    \cup (IF fs <= NumSections
          THEN {Piece(<<EmptyLine>>, FALSE, fd, {}, 0, 0),
                Piece(<<EndLine, TitleLine, EndLine>>, FALSE, fd, {}, 1, 0),
                Piece(<<EndLine>>, TRUE, fd, {}, 1, 0),
                Piece(<<>>, TRUE, fd, {}, 0, 0)}
          ELSE {})

\* a line read_data takes for stack data: a frame or a ']' line
IsDataLine(line) ==
    /\ line # <<>>
    /\ line[1] \notin {EQ, AT}
    /\ ~strstr_brackets(line)

\* The ways line k of the lines p of an entry may be broken instead: cut before
\* its newline (a line longer than the buffer, or the last of a file that does
\* not end in one), a ']' line without its ':', or the file ending before it.
\* bad counts the lines from the offending one on.  The entry cr the lines
\* belong to is then no well-formed entry of the file.
BrokenAt(p, k, fd, cr) ==
    (IF IsDataLine(p[k])
     THEN {Piece([p EXCEPT ![k] = NoNewline(@)], FALSE, fd (-) SetToBag(cr), {},
                 0, Len(p) + 1 - k)}
     ELSE {})
    \cup (IF p[k][1] = RB
          THEN {Piece([p EXCEPT ![k] = NoColonLine(1)], FALSE, fd (-) SetToBag(cr),
                      {}, 0, Len(p) + 1 - k)}
          ELSE {})
    \cup {Piece(SubSeq(p, 1, k - 1), TRUE, fd (-) SetToBag(cr), {}, 0, 0)}

\* what a buffer never written may hold when fgets leaves it alone
GarbageLines == {EndLine, AtLine, Frame_f \o <<NL>>}

(***************************************************************************)
(* State                                                                   *)
(***************************************************************************)
VARIABLES
    pc,                  \* where main is: "getopt", "exec", "lookup", "read",
                         \* "organize", "dump", "exit"
    status,              \* "running", or the exit status "success" / "failure"
    diag,                \* the messages written to stderr
    sort_arg,            \* the optarg of -S, NULL if there was none
    sort_on, number_to_show, caller, stack_depth,     \* main's locals
    pending,             \* the lines of the file known and not yet read
    eof,                 \* the file ends after pending
    fed,                 \* the bag of the well-formed entries of the file so far
    cur,                 \* the entry the lines of pending belong to, if any
    fsec,                \* the section (1..6) the file is in, 7 after the last
    bad,                 \* lines left in pending from a malformed one on, or 0
    sec,                 \* which call of read_data runs (1..6)
    rd,                  \* the locals of read_data
    lock_data,           \* one record per stack (number_lock_entries long)
    cons_data,           \* the allocated entries of cons_data
    number_cons_entries,
    out,                 \* the lines written to the report
    parent,              \* where the parent is in execute_command
    supervisor,          \* where the child that supervises the tracer is
    launcher,            \* the grandchild whose system() runs the tracer
    tracer,              \* the bpftrace script: "none", "running", "exited"
    workload,            \* the child running the command
    sigint_supervisor,   \* a SIGINT sent to the supervising child, pending
    sigint_tracer,       \* a SIGINT was sent to the tracer
    tracer_pid,          \* what the supervising child read from ps
    sig_count            \* the supervising child's loop counter count, line 788

vars == <<pc, status, diag, sort_arg, sort_on, number_to_show, caller,
          stack_depth, pending, eof, fed, cur, fsec, bad, sec, rd, lock_data,
          cons_data, number_cons_entries, out, parent, supervisor, launcher,
          tracer, workload, sigint_supervisor, sigint_tracer, tracer_pid,
          sig_count>>

number_lock_entries == Len(lock_data)

optvars == <<sort_arg, sort_on, number_to_show, caller, stack_depth>>
filevars == <<pending, eof, fed, cur, fsec, bad>>
storevars == <<lock_data, cons_data, number_cons_entries, out>>
procvars == <<parent, supervisor, launcher, tracer, workload,
              sigint_supervisor, sigint_tracer, tracer_pid, sig_count>>

\* main, line 903: without -c, execute_command is never entered
NoCommand ==
    /\ parent = "none"
    /\ supervisor = "none"
    /\ launcher = "none"
    /\ tracer = "none"
    /\ workload = "none"
    /\ sigint_supervisor = FALSE
    /\ sigint_tracer = FALSE
    /\ tracer_pid = NULL
    /\ sig_count = 0

\* main, lines 846-854, and the statics of lines 83-90
InitMain ==
    /\ pc = "getopt"
    /\ status = "running"
    /\ diag = {}
    /\ sort_arg = NULL
    /\ sort_on = ACQS_SPENT
    /\ number_to_show = 999999
    /\ caller = NULL
    /\ stack_depth = 1
    /\ pending = <<>>
    /\ eof = FALSE
    /\ fed = EmptyBag
    /\ cur = {}
    /\ fsec = 1
    /\ bad = 0
    /\ sec = 0
    /\ rd = ReadDataEntry
    /\ lock_data = <<>>
    /\ cons_data = <<>>
    /\ number_cons_entries = 0
    /\ out = <<>>
    /\ NoCommand

(***************************************************************************)
(* main: the options                                                       *)
(***************************************************************************)
\* the -s values tried
DepthOptargs == {Decimal(1), Decimal(2)}

\* case 's', lines 888-890 (given at most once)
getopt_s ==
    /\ pc = "getopt"
    /\ stack_depth = 1
    /\ \E optarg \in DepthOptargs : stack_depth' = atoi(optarg)
    /\ UNCHANGED <<procvars, pc, status, diag, sort_arg, sort_on, number_to_show, caller,
                   filevars, sec, rd, storevars>>

\* the loop of lines 856-896 ends; no -c, so line 907 is next
getopt_done ==
    /\ pc = "getopt"
    /\ pc' = "lookup"
    /\ UNCHANGED <<procvars, status, diag, optvars, filevars, sec, rd, storevars>>

(***************************************************************************)
(* lookup_data, one line (or one pair of lines) of read_data at a time     *)
(***************************************************************************)
\* lines 389-404: the file opens, four lines are skipped, read_data starts
lookup_data_open ==
    /\ pc = "lookup"
    /\ \E c \in {Piece(<<TitleLine, EndLine, TitleLine, EndLine>>, FALSE, fed, {}, 0, 0),
                 Piece(<<>>, TRUE, fed, {}, 0, 0)} :
         /\ pending' = Drop(c.lines, 4)
         /\ eof' = c.eof
    /\ pc' = "read"
    /\ sec' = 1
    /\ rd' = ReadDataEntry
    /\ UNCHANGED <<procvars, status, diag, optvars, fed, cur, fsec, bad, storevars>>

\* The file as far as the next pass of the loop reads it: the lines known, as
\* they are or with the next line broken (the next two, when the pass reads the
\* function line as well); a new piece when none is left.
Inputs ==
    IF eof \/ bad > 0
    THEN {Piece(pending, eof, fed, cur, 0, bad)}
    ELSE IF pending = <<>>
    THEN Pieces(fsec, fed)
    ELSE {Piece(pending, FALSE, fed, cur, 0, 0)}
         \cup BrokenAt(pending, 1, fed, cur)
         \cup (IF rd.have_function = 0 /\ Len(pending) >= 2 /\ IsDataLine(pending[1])
               THEN BrokenAt(pending, 2, fed, cur)
               ELSE {})

GarbageFor(c) ==
    IF c.lines = <<>> /\ rd.buffer = UNINIT THEN GarbageLines ELSE {<<>>}

\* a pass of the loop that ends in a continue
ReadDataContinue(branch) ==
    /\ \E c \in Inputs : \E g \in GarbageFor(c) :
         LET r == read_data_iter(rd, lock_data, c.lines, stack_depth,
                                 SectionIndex[sec], g)
         IN  /\ r.branch = branch
             /\ rd' = r.l
             /\ lock_data' = r.lock
             /\ pending' = r.rest
             /\ eof' = c.eof
             /\ fed' = c.fed
             /\ cur' = IF r.rest = <<>> THEN {} ELSE c.cur
             /\ fsec' = fsec + c.adv
             /\ bad' = c.bad
    /\ UNCHANGED <<procvars, pc, status, diag, optvars, sec, cons_data,
                   number_cons_entries, out>>

read_data_empty == pc = "read" /\ ReadDataContinue("empty")

read_data_at == pc = "read" /\ ReadDataContinue("at")

read_data_function == pc = "read" /\ ReadDataContinue("function")

read_data_term == pc = "read" /\ ReadDataContinue("term")

read_data_frame == pc = "read" /\ ReadDataContinue("frame")

\* line 280: the section ends; lookup_data skips two lines and calls read_data
\* for the next section, or closes the file after the sixth
read_data_end ==
    /\ pc = "read"
    /\ \E c \in Inputs : \E g \in GarbageFor(c) :
         LET r == read_data_iter(rd, lock_data, c.lines, stack_depth,
                                 SectionIndex[sec], g)
         IN  /\ r.branch = "end"
             /\ pending' = IF sec < NumSections THEN Drop(r.rest, 2) ELSE r.rest
             /\ eof' = c.eof
             /\ fed' = c.fed
             /\ cur' = {}
             /\ fsec' = fsec + c.adv
             /\ bad' = c.bad
    /\ rd' = ReadDataEntry
    /\ sec' = IF sec < NumSections THEN sec + 1 ELSE sec
    /\ pc' = IF sec < NumSections THEN "read" ELSE "organize"
    /\ UNCHANGED <<procvars, status, diag, optvars, storevars>>

\* lines 249-250 and 317-318: the message and exit(EXIT_FAILURE)
read_data_malformed ==
    /\ pc = "read"
    /\ \E c \in Inputs : \E g \in GarbageFor(c) :
         LET r == read_data_iter(rd, lock_data, c.lines, stack_depth,
                                 SectionIndex[sec], g)
         IN  /\ r.branch = "malformed"
             /\ rd' = r.l
             /\ pending' = r.rest
             /\ eof' = c.eof
             /\ fed' = c.fed
             /\ cur' = IF r.rest = <<>> THEN {} ELSE c.cur
             /\ fsec' = fsec + c.adv
             /\ bad' = c.bad
    /\ diag' = diag \cup {"malformed line"}
    /\ status' = "failure"
    /\ pc' = "exit"
    /\ UNCHANGED <<procvars, optvars, sec, storevars>>

(***************************************************************************)
(* organize_data and dump_data as main calls them, lines 909-913           *)
(***************************************************************************)
organize_data ==
    /\ pc = "organize"
    /\ \E sorted \in qsort(lock_data, sort_func) :
         LET r == organize_loop(sorted, 0, cons_data, number_cons_entries)
         IN  /\ lock_data' = sorted
             /\ cons_data' = r.cons_data
             /\ number_cons_entries' = r.number_cons_entries
    /\ pc' = "dump"
    /\ UNCHANGED <<procvars, status, diag, optvars, filevars, sec, rd, out>>

\* dump_data(output_file, caller, sort_on, number_to_show) with the report on
\* stdout, then return(0)
dump_data ==
    /\ pc = "dump"
    /\ LET n == number_cons_entries
           totals == [i \in 1..Len(cons_data) |->
                        IF i <= n THEN WithTotals(cons_data[i]) ELSE cons_data[i]]
       IN  \E sorted \in SortedBy(SubSeq(totals, 1, n), sort_on) :
             LET all == sorted \o Drop(totals, n)
                 n2 == Truncated(number_to_show, n)
             IN  /\ out' = <<HeaderLine>> \o DumpRows(all, 0, n2, caller)
                 /\ number_cons_entries' = n2
                 /\ cons_data' = [i \in 1..Len(all) |->
                                    IF i <= n2
                                    THEN [all[i] EXCEPT !.called_from = CutAtColon(@)]
                                    ELSE all[i]]
    /\ pc' = "exit"
    /\ status' = "success"
    /\ UNCHANGED <<procvars, diag, optvars, filevars, sec, rd, lock_data>>

(***************************************************************************)
(* SpecParse: a run without options, on any file of the pieces above       *)
(***************************************************************************)
NextParse ==
    \/ getopt_done
    \/ lookup_data_open
    \/ read_data_empty
    \/ read_data_at
    \/ read_data_function
    \/ read_data_term
    \/ read_data_frame
    \/ read_data_end
    \/ read_data_malformed
    \/ organize_data
    \/ dump_data

SpecParse == InitMain /\ [][NextParse]_vars

(***************************************************************************)
(* lookup_data on a whole file                                             *)
(***************************************************************************)
\* read_data, lines 263-376: the loop run to its break ("end"), to the exit
\* ("malformed"), or to a pass at the end of the file that changes nothing,
\* after which it never ends ("hang")
RECURSIVE read_data(_, _, _, _, _, _)
read_data(l, lock, lines, sdepth, index, garbage) ==
    LET r == read_data_iter(l, lock, lines, sdepth, index, garbage)
    IN  IF r.branch \in {"end", "malformed"}
        THEN [lock |-> r.lock, rest |-> r.rest, result |-> r.branch]
        ELSE IF lines = <<>> /\ r.l = l
        THEN [lock |-> r.lock, rest |-> <<>>, result |-> "hang"]
        ELSE read_data(r.l, r.lock, r.rest, sdepth, index, garbage)

\* lines 404-426: read_data for section s and the ones after it, two lines
\* skipped before each
RECURSIVE lookup_sections(_, _, _, _, _)
lookup_sections(lock, lines, s, sdepth, garbage) ==
    LET r == read_data(ReadDataEntry, lock, lines, sdepth, SectionIndex[s], garbage)
    IN  IF r.result # "end" THEN r
        ELSE IF s = NumSections THEN [lock |-> r.lock, rest |-> r.rest, result |-> "ok"]
        ELSE lookup_sections(r.lock, Drop(r.rest, 2), s + 1, sdepth, garbage)

\* lines 398-403: four lines are skipped before the first section
lookup_data_run(lines, sdepth, garbage) ==
    lookup_sections(<<>>, Drop(lines, 4), 1, sdepth, garbage)

(***************************************************************************)
(* Whole trace files, as the tracer prints them: six sections in the order *)
(* of the END block, every stack of the file with an entry in each.        *)
(***************************************************************************)
RECURSIVE Flatten(_)
Flatten(ss) == IF ss = <<>> THEN <<>> ELSE Head(ss) \o Flatten(Tail(ss))

\* the stacks of the files, in the order their entries are printed
FileStacks ==
    <<<<Frame_m, Frame_f, Frame_x>>, <<Frame_m, Frame_g, Frame_x>>,
      <<Frame_m, Frame_g, Frame_y>>, <<Frame_m, Frame_gh, Frame_x>>>>

\* the values a stack may have in the six sections: acq avg, acq max,
\* acq count, hold avg, hold max, hold count
Profiles ==
    {<<1, 5, 4, 2, 3, 1>>, <<2, 4, 1, 3, 6, 3>>,
     <<3, 3, 2, 4, 2, 2>>, <<2, 6, 3, 1, 1, 5>>}

Present(row) == row.vals # <<>>

\* the rows (a stack and its six values) of the files
\* every choice of some of the stacks and of a profile for each, and the file
\* of two stacks under one caller with (count 10, avg 100), (count 30, avg 300)
FileRows(stacks) ==
    {SelectSeq([i \in 1..Len(stacks) |-> [stack |-> stacks[i], vals |-> f[i]]],
               Present) :
       f \in [1..Len(stacks) -> Profiles \cup {<<>>}]}
    \cup {<<[stack |-> FileStacks[2], vals |-> <<100, 100, 10, 0, 0, 0>>],
            [stack |-> FileStacks[3], vals |-> <<300, 300, 30, 0, 0, 0>>]>>}

TraceFile(rows) ==
    [lines |->
        <<TitleLine, EndLine, TitleLine, EndLine>>
        \o Flatten([s \in 1..NumSections |->
              Flatten([i \in 1..Len(rows) |-> EntryLines(rows[i].stack, rows[i].vals[s])])
              \o <<EndLine, TitleLine, EndLine>>]),
     fed |->
        SetToBag({[sec |-> s, frames |-> rows[i].stack, value |-> rows[i].vals[s]] :
                    s \in 1..NumSections, i \in 1..Len(rows)})]

\* the files of Spec
TraceFiles == {TraceFile(rows) : rows \in FileRows(SubSeq(FileStacks, 1, 3))}

\* lookup_data(file, stack_depth), lines 383-427, on a whole file
lookup_data ==
    /\ pc = "lookup"
    /\ \E f \in TraceFiles :
         LET r == lookup_data_run(f.lines, stack_depth, EndLine)
         IN  /\ r.result = "ok"
             /\ lock_data' = r.lock
             /\ fed' = f.fed
    /\ fsec' = NumSections + 1
    /\ sec' = NumSections
    /\ pc' = "organize"
    /\ UNCHANGED <<procvars, status, diag, optvars, pending, eof, cur, bad, rd, cons_data,
                   number_cons_entries, out>>

(***************************************************************************)
(* main: -S                                                                *)
(***************************************************************************)
Itoa(k) == IF k < 0 THEN <<MINUS>> \o Decimal(0 - k) ELSE Decimal(k)

\* the -S values tried
SortOptargs == {Itoa(k) : k \in (0 - 1)..8}

\* lines 882-886: what sort_on is after -S v
SortOnFor(v) == IF v > ACQS_SPENT THEN ACQS_SPENT ELSE v

\* case 'S', lines 881-887 (given at most once)
getopt_S ==
    /\ pc = "getopt"
    /\ sort_arg = NULL
    /\ \E optarg \in SortOptargs :
         /\ sort_arg' = optarg
         /\ sort_on' = SortOnFor(atoi(optarg))
         /\ diag' = IF atoi(optarg) > ACQS_SPENT
                    THEN diag \cup {"Invalid sort option, defaulting to option 6"}
                    ELSE diag
    /\ UNCHANGED <<procvars, pc, status, number_to_show, caller, stack_depth, filevars,
                   sec, rd, storevars>>

(***************************************************************************)
(* Spec: a run with -S and -s as given, on a whole trace file              *)
(***************************************************************************)
Next ==
    \/ getopt_S
    \/ getopt_s
    \/ getopt_done
    \/ lookup_data
    \/ organize_data
    \/ dump_data

Spec == InitMain /\ [][Next]_vars

(***************************************************************************)
(* SpecDump: dump_data on its own, entered as organize_data leaves the     *)
(* stores for a trace file, with any caller, sort_option and numb_to_show  *)
(***************************************************************************)
\* the files of SpecDump
DumpFiles == {TraceFile(rows) : rows \in FileRows(FileStacks)}

\* the -s value of the run
DumpDepths == {2}

\* sort_option: the eight codes and one value on either side of them
DumpSortOptions == (0 - 1)..8

\* caller: none, "f", "g", "gh" or "h"
DumpCallers == {NULL, <<102>>, <<103>>, <<103, 104>>, <<104>>}

MaxShow == 3

\* numb_to_show, the int atoi makes of the -n value (line 876)
DumpShow == (0 - 1)..MaxShow

InitDump ==
    /\ pc = "dump"
    /\ status = "running"
    /\ diag = {}
    /\ sort_arg = NULL
    /\ pending = <<>>
    /\ eof = FALSE
    /\ cur = {}
    /\ fsec = NumSections + 1
    /\ bad = 0
    /\ sec = NumSections
    /\ rd = ReadDataEntry
    /\ out = <<>>
    /\ NoCommand
    /\ \E f \in DumpFiles, d \in DumpDepths :
         \E sorted \in qsort(lookup_data_run(f.lines, d, EndLine).lock, sort_func) :
           LET r == organize_loop(sorted, 0, <<>>, 0)
           IN  /\ fed = f.fed
               /\ stack_depth = d
               /\ lock_data = sorted
               /\ cons_data = r.cons_data
               /\ number_cons_entries = r.number_cons_entries
    /\ sort_on \in DumpSortOptions
    /\ caller \in DumpCallers
    /\ number_to_show \in DumpShow

NextDump == dump_data

SpecDump == InitDump /\ [][NextDump]_vars

(***************************************************************************)
(* SpecFold: organize_data on its own, entered as lookup_data leaves the   *)
(* store for a trace file with up to three stacks under one caller         *)
(***************************************************************************)
\* the stacks of the files of SpecFold: one under f, three under g
FoldStacks ==
    <<<<Frame_m, Frame_f, Frame_x>>, <<Frame_m, Frame_g, Frame_f>>,
      <<Frame_m, Frame_g, Frame_x>>, <<Frame_m, Frame_g, Frame_y>>>>

FoldFiles == {TraceFile(rows) : rows \in FileRows(FoldStacks)}

InitFold ==
    /\ pc = "organize"
    /\ status = "running"
    /\ diag = {}
    /\ sort_arg = NULL
    /\ sort_on = ACQS_SPENT
    /\ number_to_show = 999999
    /\ caller = NULL
    /\ stack_depth = 1
    /\ pending = <<>>
    /\ eof = FALSE
    /\ cur = {}
    /\ fsec = NumSections + 1
    /\ bad = 0
    /\ sec = NumSections
    /\ rd = ReadDataEntry
    /\ cons_data = <<>>
    /\ number_cons_entries = 0
    /\ out = <<>>
    /\ NoCommand
    /\ \E f \in FoldFiles :
         /\ fed = f.fed
         /\ lock_data = lookup_data_run(f.lines, 1, EndLine).lock

NextFold == organize_data

SpecFold == InitFold /\ [][NextFold]_vars

(***************************************************************************)
(* SpecExec: execute_command, entered by main when -c names a command.     *)
(* Four processes run side by side: the parent, the child that supervises  *)
(* the tracer, the grandchild whose system() runs the tracer, and the      *)
(* child that runs the command.  sleep(5) orders nothing: every            *)
(* interleaving of their steps is a run.                                   *)
(***************************************************************************)
InitExec ==
    /\ pc = "exec"
    /\ status = "running"
    /\ diag = {}
    /\ sort_arg = NULL
    /\ sort_on = ACQS_SPENT
    /\ number_to_show = 999999
    /\ caller = NULL
    /\ stack_depth = 1
    /\ pending = <<>>
    /\ eof = FALSE
    /\ fed = EmptyBag
    /\ cur = {}
    /\ fsec = 1
    /\ bad = 0
    /\ sec = 0
    /\ rd = ReadDataEntry
    /\ lock_data = <<>>
    /\ cons_data = <<>>
    /\ number_cons_entries = 0
    /\ out = <<>>
    /\ parent = "fork_bpftrace"
    /\ supervisor = "none"
    /\ launcher = "none"
    /\ tracer = "none"
    /\ workload = "none"
    /\ sigint_supervisor = FALSE
    /\ sigint_tracer = FALSE
    /\ tracer_pid = NULL
    /\ sig_count = 0

mainvars == <<status, diag, optvars, filevars, sec, rd, storevars>>

\* the signal numbers of the build (Linux) and the bound of line 49
SIGINT == 2
SIGSEGV == 11
SIGALRM == 14
SIGCHLD == 17
SIGTSTP == 20
SIGRTMAX == 64
_SIGRTMAX == SIGRTMAX - 2 + 1

\* the signals pause_stub is installed for once the loop of lines 788-794
\* has reached n
Handled(n) == {s \in 0..(n - 1) : s \notin {SIGCHLD, SIGTSTP, SIGALRM, SIGSEGV}}

\* the supervising child has pause_stub installed for SIGINT
HandlerInstalled == supervisor # "fork" /\ SIGINT \in Handled(sig_count)

\* the supervising child is a live process
SupervisorAlive == supervisor \notin {"none", "exited", "killed"}

\* ---- the parent ----
\* line 774, the parent's side of fork()
parent_fork_bpftrace ==
    /\ parent = "fork_bpftrace"
    /\ parent' = "sleep"
    /\ supervisor' = "fork"
    /\ UNCHANGED <<pc, mainvars, launcher, tracer, workload, sigint_supervisor,
                   sigint_tracer, tracer_pid,
                   sig_count>>

\* line 820
parent_sleep ==
    /\ parent = "sleep"
    /\ parent' = "fork_command"
    /\ UNCHANGED <<pc, mainvars, supervisor, launcher, tracer, workload,
                   sigint_supervisor, sigint_tracer, tracer_pid,
                   sig_count>>

\* lines 821-825: the child runs the command with system()
parent_fork_command ==
    /\ parent = "fork_command"
    /\ parent' = "waitpid_command"
    /\ workload' = "running"
    /\ UNCHANGED <<pc, mainvars, supervisor, launcher, tracer, sigint_supervisor,
                   sigint_tracer, tracer_pid,
                   sig_count>>

\* line 827
parent_waitpid_command ==
    /\ parent = "waitpid_command"
    /\ workload = "exited"
    /\ parent' = "kill"
    /\ UNCHANGED <<pc, mainvars, supervisor, launcher, tracer, workload,
                   sigint_supervisor, sigint_tracer, tracer_pid,
                   sig_count>>

\* line 831: kill(bpftrace_pid, SIGINT), bpftrace_pid the supervising child
parent_kill ==
    /\ parent = "kill"
    /\ parent' = "waitpid_bpftrace"
    /\ sigint_supervisor' = SupervisorAlive
    /\ UNCHANGED <<pc, mainvars, supervisor, launcher, tracer, workload,
                   sigint_tracer, tracer_pid,
                   sig_count>>

\* lines 833-834: waitpid returns for a child that exited or was killed, and
\* execute_command returns to main (line 906 is next)
parent_waitpid_bpftrace ==
    /\ parent = "waitpid_bpftrace"
    /\ supervisor \in {"exited", "killed"}
    /\ parent' = "returned"
    /\ pc' = "lookup"
    /\ UNCHANGED <<mainvars, supervisor, launcher, tracer, workload,
                   sigint_supervisor, sigint_tracer, tracer_pid,
                   sig_count>>

\* ---- the supervising child ----
\* lines 775-782
supervisor_fork ==
    /\ supervisor = "fork"
    /\ supervisor' = "sigaction"
    /\ launcher' = "system"
    /\ UNCHANGED <<pc, mainvars, parent, tracer, workload, sigint_supervisor,
                   sigint_tracer, tracer_pid,
                   sig_count>>

\* lines 783-794, one pass of the loop
supervisor_sigaction ==
    /\ supervisor = "sigaction"
    /\ sig_count < _SIGRTMAX
    /\ sig_count' = sig_count + 1
    /\ UNCHANGED <<pc, mainvars, parent, supervisor, launcher, tracer, workload,
                   sigint_supervisor, sigint_tracer, tracer_pid>>

\* line 788: the loop ends
supervisor_installed ==
    /\ supervisor = "sigaction"
    /\ ~(sig_count < _SIGRTMAX)
    /\ supervisor' = "pause"
    /\ UNCHANGED <<pc, mainvars, parent, launcher, tracer, workload,
                   sigint_supervisor, sigint_tracer, tracer_pid, sig_count>>

\* line 795: pause() is entered and blocks
supervisor_pause ==
    /\ supervisor = "pause"
    /\ supervisor' = "paused"
    /\ UNCHANGED <<pc, mainvars, parent, launcher, tracer, workload,
                   sigint_supervisor, sigint_tracer, tracer_pid,
                   sig_count>>

\* lines 798-813: the pid of the line of ps that names the tracer; with no
\* such line the pid read is that of no process of execute_command
supervisor_ps ==
    /\ supervisor = "ps"
    /\ supervisor' = "kill"
    /\ tracer_pid' = IF tracer = "running" THEN "tracer" ELSE "other"
    /\ UNCHANGED <<pc, mainvars, parent, launcher, tracer, workload,
                   sigint_supervisor, sigint_tracer,
                   sig_count>>

\* line 814
supervisor_kill ==
    /\ supervisor = "kill"
    /\ supervisor' = "waitpid"
    /\ sigint_tracer' = (sigint_tracer \/ (tracer_pid = "tracer" /\ tracer = "running"))
    /\ UNCHANGED <<pc, mainvars, parent, launcher, tracer, workload,
                   sigint_supervisor, tracer_pid,
                   sig_count>>

\* lines 816-817
supervisor_waitpid ==
    /\ supervisor = "waitpid"
    /\ launcher = "exited"
    /\ supervisor' = "exited"
    /\ UNCHANGED <<pc, mainvars, parent, launcher, tracer, workload,
                   sigint_supervisor, sigint_tracer, tracer_pid,
                   sig_count>>

\* The kernel delivers the pending SIGINT to the supervising child.  Before
\* line 792 has run for SIGINT the disposition is the default one and the
\* child is terminated; after it pause_stub (lines 745-748) runs and returns:
\* a pause() in progress returns, a waitpid() in progress is interrupted
\* (sa_flags is 0, line 786), anywhere else the child just goes on.
sigint_delivered ==
    /\ sigint_supervisor
    /\ SupervisorAlive
    /\ sigint_supervisor' = FALSE
    /\ supervisor' = CASE ~HandlerInstalled -> "killed"
                       [] supervisor = "paused" -> "ps"
                       [] supervisor = "waitpid" -> "exited"
                       [] OTHER -> supervisor
    /\ UNCHANGED <<pc, mainvars, parent, launcher, tracer, workload,
                   sigint_tracer, tracer_pid,
                   sig_count>>

\* ---- the grandchild and the tracer ----
\* line 778: system() starts the tracer and waits for it
launcher_system ==
    /\ launcher = "system"
    /\ launcher' = "waiting"
    /\ tracer' = "running"
    /\ UNCHANGED <<pc, mainvars, parent, supervisor, workload, sigint_supervisor,
                   sigint_tracer, tracer_pid,
                   sig_count>>

\* the tracer runs until it is interrupted (its END block, lines 686-715,
\* writes the maps)
tracer_exit ==
    /\ tracer = "running"
    /\ sigint_tracer
    /\ tracer' = "exited"
    /\ UNCHANGED <<pc, mainvars, parent, supervisor, launcher, workload,
                   sigint_supervisor, sigint_tracer, tracer_pid,
                   sig_count>>

\* lines 778-779: system() returns once the tracer has exited
launcher_exit ==
    /\ launcher = "waiting"
    /\ tracer = "exited"
    /\ launcher' = "exited"
    /\ UNCHANGED <<pc, mainvars, parent, supervisor, tracer, workload,
                   sigint_supervisor, sigint_tracer, tracer_pid,
                   sig_count>>

\* ---- the workload ----
\* lines 823-824: the command ends, system() returns and the child exits
workload_exit ==
    /\ workload = "running"
    /\ workload' = "exited"
    /\ UNCHANGED <<pc, mainvars, parent, supervisor, launcher, tracer,
                   sigint_supervisor, sigint_tracer, tracer_pid,
                   sig_count>>

NextExec ==
    \/ parent_fork_bpftrace
    \/ parent_sleep
    \/ parent_fork_command
    \/ parent_waitpid_command
    \/ parent_kill
    \/ parent_waitpid_bpftrace
    \/ supervisor_fork
    \/ supervisor_sigaction
    \/ supervisor_installed
    \/ supervisor_pause
    \/ supervisor_ps
    \/ supervisor_kill
    \/ supervisor_waitpid
    \/ sigint_delivered
    \/ launcher_system
    \/ tracer_exit
    \/ launcher_exit
    \/ workload_exit

SpecExec == InitExec /\ [][NextExec]_vars

(***************************************************************************)
(* What the claims speak of                                                *)
(***************************************************************************)
IsRow(line) == line.kind = "row"

\* the data rows of a report
Rows(o) == SelectSeq(o, IsRow)

NonIncreasing(q) == \A i \in 1..Len(q) : \A j \in 1..Len(q) : i < j => q[i] >= q[j]

MinOf(a, b) == IF a < b THEN a ELSE b

\* the stack records with the called_from key k, in the order of the store
RECURSIVE RecordsOf(_, _)
RecordsOf(lock, k) ==
    IF lock = <<>> THEN <<>>
    ELSE (IF Head(lock).called_from = k THEN <<Head(lock)>> ELSE <<>>)
           \o RecordsOf(Tail(lock), k)

RECURSIVE SumOf(_, _)
SumOf(recs, idx) ==
    IF recs = <<>> THEN 0 ELSE Head(recs).data[idx] + SumOf(Tail(recs), idx)

RECURSIVE MaxOf(_, _)
MaxOf(recs, idx) ==
    IF recs = <<>> THEN 0
    ELSE LET m == MaxOf(Tail(recs), idx)
         IN  IF Head(recs).data[idx] > m THEN Head(recs).data[idx] ELSE m

\* avg' = (avg*count + in.avg*in.count) / (count + in.count), one record at a
\* time, avg' = avg while the merged count is 0
RECURSIVE FoldAvg(_, _, _, _, _)
FoldAvg(recs, avgIdx, cntIdx, avg, count) ==
    IF recs = <<>> THEN avg
    ELSE LET in == Head(recs).data
             merged == count + in[cntIdx]
         IN  FoldAvg(Tail(recs), avgIdx, cntIdx,
                     IF merged > 0
                     THEN (avg * count + in[avgIdx] * in[cntIdx]) \div merged
                     ELSE avg,
                     merged)

Keys(lock) == {lock[i].called_from : i \in 1..Len(lock)}

\* the consolidated store as dump_data finds it (lock_data stays as
\* organize_data sorted it)
ConsAtEntry == organize_loop(lock_data, 0, <<>>, 0)

\* the first frame of a called_from key: leading blanks dropped, cut at the
\* first separator or blank
FirstFrame(key) ==
    LET t == SkipSpace(key)
        ends == {i \in 1..Len(t) : t[i] \in {COLON, SP}}
    IN  IF ends = {} THEN t
        ELSE SubSeq(t, 1, (CHOOSE i \in ends : \A j \in ends : i <= j) - 1)

\* the first frame of the entry is the -C string
MatchesCaller(e) == FirstFrame(e.called_from) = caller

\* the consolidated records that survive the caller filter
Surviving ==
    LET c == ConsAtEntry
    IN  {i \in 1..c.number_cons_entries :
           caller = NULL \/ FirstFrame(c.cons_data[i].called_from) = caller}

\* the key of sort code c on a row (# holds, hold max, hold avg, # acqs,
\* acq max, acq avg)
RowKey(r, c) ==
    CASE c = 0 -> r.data[1]
      [] c = 1 -> r.data[2]
      [] c = 2 -> r.data[3]
      [] c = 3 -> r.data[3] * r.data[1]
      [] c = 4 -> r.data[4]
      [] c = 5 -> r.data[5]
      [] c = 6 -> r.data[6]
      [] c = 7 -> r.data[6] * r.data[4]

RowKeys(o, c) ==
    LET rows == Rows(o) IN [i \in 1..Len(rows) |-> RowKey(rows[i], c)]

Reported == pc = "exit" /\ status = "success"

\* the signature of a stack as the store keeps it: the first frame and a
\* blank, the second and a separator, every further one and a blank
SignatureOf(frames) ==
    frames[1] \o <<SP>> \o frames[2] \o <<COLON>>
      \o Flatten([i \in 1..(Len(frames) - 2) |-> frames[i + 2] \o <<SP>>])

\* the signatures of the well-formed entries of the file
Signatures == {SignatureOf(e.frames) : e \in BagToSet(fed)}

RECURSIVE SumValues(_)
SumValues(S) ==
    IF S = {} THEN 0
    ELSE LET e == CHOOSE x \in S : TRUE
         IN  e.value * CopiesIn(e, fed) + SumValues(S \ {e})

\* the sum of the values of the entries of section s with signature sig
SectionSum(sig, s) ==
    SumValues({e \in BagToSet(fed) : e.sec = s /\ SignatureOf(e.frames) = sig})

\* lookup_data has returned
ParseDone == pc \in {"organize", "dump"} \/ Reported

\* the store holds the well-formed entries read, and nothing else
StoreIsEntries ==
    /\ {lock_data[i].stack : i \in 1..Len(lock_data)} = Signatures
    /\ \A i \in 1..Len(lock_data) : \A s \in 1..NumSections :
         lock_data[i].data[SectionIndex[s]] = SectionSum(lock_data[i].stack, s)

\* lines 462-488 for the records recs in turn, from a zeroed entry
RECURSIVE FoldRecords(_, _)
FoldRecords(entry, recs) ==
    IF recs = <<>> THEN entry
    ELSE FoldRecords(AddThingsUp(entry, Head(recs)), Tail(recs))

\* the records recs in every order
EveryOrder(recs) ==
    LET n == Len(recs)
    IN  {[k \in 1..n |-> recs[o[k]]] :
           o \in Orders(1..n, [i \in 1..n |-> [j \in 1..n |-> TRUE]])}

\* the key of sort code c on a consolidated entry
EntryKey(e, c) ==
    CASE c = 0 -> e.data[HD_DATA_HOLD_COUNT]
      [] c = 1 -> e.data[HD_DATA_HOLD_MAX]
      [] c = 2 -> e.data[HD_DATA_HOLD_AVG]
      [] c = 3 -> e.data[HD_DATA_HOLD_AVG] * e.data[HD_DATA_HOLD_COUNT]
      [] c = 4 -> e.data[ACQ_DATA_HOLD_COUNT]
      [] c = 5 -> e.data[ACQ_DATA_HOLD_MAX]
      [] c = 6 -> e.data[ACQ_DATA_HOLD_AVG]
      [] c = 7 -> e.data[ACQ_DATA_HOLD_AVG] * e.data[ACQ_DATA_HOLD_COUNT]

\* no two consolidated entries tie under sort code c
StrictRanks(c) ==
    LET t == ConsAtEntry
    IN  \A i \in 1..t.number_cons_entries : \A j \in 1..t.number_cons_entries :
          i # j => EntryKey(t.cons_data[i], c) # EntryKey(t.cons_data[j], c)

(***************************************************************************)
(* Claims                                                                  *)
(***************************************************************************)
\* C1: after organize_data every consolidated entry holds, for acquisition
\* and for hold, the sum of the counts and the maximum of the max values of
\* all stack records with its called_from key, and the average folded over
\* them one record at a time.
C1_ConsolidationSums ==
    pc = "dump" =>
      \A i \in 1..number_cons_entries :
        LET e == cons_data[i].data
            recs == RecordsOf(lock_data, cons_data[i].called_from)
        IN  /\ e[ACQ_DATA_HOLD_COUNT] = SumOf(recs, ACQ_DATA_HOLD_COUNT)
            /\ e[HD_DATA_HOLD_COUNT] = SumOf(recs, HD_DATA_HOLD_COUNT)
            /\ e[ACQ_DATA_HOLD_MAX] = MaxOf(recs, ACQ_DATA_HOLD_MAX)
            /\ e[HD_DATA_HOLD_MAX] = MaxOf(recs, HD_DATA_HOLD_MAX)
            /\ e[ACQ_DATA_HOLD_AVG] =
                 FoldAvg(recs, ACQ_DATA_HOLD_AVG, ACQ_DATA_HOLD_COUNT, 0, 0)
            /\ e[HD_DATA_HOLD_AVG] =
                 FoldAvg(recs, HD_DATA_HOLD_AVG, HD_DATA_HOLD_COUNT, 0, 0)

\* C2: after organize_data the consolidated store has exactly one entry for
\* each called_from key of the stack record store, and number_cons_entries is
\* the number of distinct keys.
C2_OneRecordPerKey ==
    pc = "dump" =>
      /\ number_cons_entries = Cardinality(Keys(lock_data))
      /\ \A k \in Keys(lock_data) :
           Cardinality({i \in 1..number_cons_entries :
                          cons_data[i].called_from = k}) = 1

\* C3: without -S the rows of the report are non-increasing in
\* acq_avg * acq_count.
C3_DefaultAcqTotal ==
    (Reported /\ sort_arg = NULL) => NonIncreasing(RowKeys(out, 7))

\* C4: with a caller filter and a row limit n >= 0 the report has
\* min(n, m) rows, m being the number of consolidated records that match the
\* filter (stated for a sort code 0..7 under which no two records tie, so
\* that the rank order is one order).
C4_FilterBeforeLimit ==
    (/\ Reported
     /\ caller # NULL
     /\ number_to_show >= 0
     /\ sort_on \in 0..7
     /\ StrictRanks(sort_on)) =>
      Len(Rows(out)) = MinOf(number_to_show, Cardinality(Surviving))

\* C5: the sort code given with -S is replaced if and only if it lies outside
\* 0..7, a replacement comes with the diagnostic, and the run still writes a
\* report.
C5_SortCodeClamp ==
    sort_arg # NULL =>
      /\ (sort_on # atoi(sort_arg)) <=> (atoi(sort_arg) \notin 0..7)
      /\ (sort_on # atoi(sort_arg)) => diag # {}
      /\ (atoi(sort_arg) \in 0..7) => diag = {}
      /\ pc = "exit" => (status = "success" /\ out # <<>>)

\* C6: after parsing, the store has as many records as the entries of the
\* file have distinct signatures, one for each, however many sections a
\* signature occurs in; while read_data runs the store is sorted by signature
\* without repeats.
C6_OneRecordPerSignature ==
    /\ pc = "read" =>
         \A i \in 1..Len(lock_data) : \A j \in 1..Len(lock_data) :
           i < j => strcmp(lock_data[i].stack, lock_data[j].stack) < 0
    /\ ParseDone =>
         /\ Len(lock_data) = Cardinality(Signatures)
         /\ {lock_data[i].stack : i \in 1..Len(lock_data)} = Signatures

\* a parsed file with two signatures, one of them in two sections
C6_Witness ==
    /\ pc = "organize"
    /\ Len(lock_data) = 2
    /\ \E e1 \in BagToSet(fed) : \E e2 \in BagToSet(fed) :
         e1.frames = e2.frames /\ e1.sec # e2.sec

\* C7: after parsing, each record's field of each of the six sections is the
\* sum of the values of the entries of that section with the record's
\* signature, 0 if there is none, and the two totals are untouched.
C7_SectionSums ==
    ParseDone =>
      \A i \in 1..Len(lock_data) :
        /\ \A s \in 1..NumSections :
             lock_data[i].data[SectionIndex[s]] = SectionSum(lock_data[i].stack, s)
        /\ lock_data[i].data[ACQ_DATA_TOTAL_TIME] = 0
        /\ lock_data[i].data[HD_DATA_TOTAL_TIME] = 0

\* a parsed file with one signature twice in a section and another record
C7_Witness ==
    /\ pc = "organize"
    /\ Len(lock_data) = 2
    /\ \E e1 \in BagToSet(fed) :
         \/ CopiesIn(e1, fed) >= 2
         \/ \E e2 \in BagToSet(fed) :
              e2 # e1 /\ e1.frames = e2.frames /\ e1.sec = e2.sec

\* C8: for each sort code 0..7 the rows of the report are non-increasing in
\* the key of the code, and the two totals of every consolidated entry are
\* average times count.
C8_RowsRanked ==
    (Reported /\ sort_on \in 0..7) =>
      LET c == ConsAtEntry
      IN  /\ NonIncreasing(RowKeys(out, sort_on))
          /\ \A i \in 1..c.number_cons_entries :
               /\ cons_data[i].data[ACQ_DATA_TOTAL_TIME] =
                    cons_data[i].data[ACQ_DATA_HOLD_AVG]
                      * cons_data[i].data[ACQ_DATA_HOLD_COUNT]
               /\ cons_data[i].data[HD_DATA_TOTAL_TIME] =
                    cons_data[i].data[HD_DATA_HOLD_AVG]
                      * cons_data[i].data[HD_DATA_HOLD_COUNT]
               /\ \E j \in 1..c.number_cons_entries :
                    \A x \in {ACQ_DATA_HOLD_AVG, ACQ_DATA_HOLD_COUNT,
                              HD_DATA_HOLD_AVG, HD_DATA_HOLD_COUNT} :
                      cons_data[i].data[x] = c.cons_data[j].data[x]

\* a report by code 7 with two rows whose acq_total falls while their
\* acq_avg rises
C8_Witness ==
    /\ Reported
    /\ sort_on = 7
    /\ LET rows == Rows(out)
       IN  \E i \in 1..Len(rows) : \E j \in 1..Len(rows) :
             /\ i < j
             /\ RowKey(rows[i], 7) > RowKey(rows[j], 7)
             /\ RowKey(rows[i], 6) < RowKey(rows[j], 6)

\* C10: once read_data has read a data line without its newline or a ']'
\* line without ':', the run has ended in failure with the message; a run
\* that failed has written no header and no row, has consolidated nothing, and
\* its store holds the well-formed entries read before only.
C10_MalformedAborts ==
    /\ (bad > 0 /\ Len(pending) < bad) =>
         (pc = "exit" /\ status = "failure" /\ "malformed line" \in diag)
    /\ status = "failure" =>
         /\ pc = "exit"
         /\ out = <<>>
         /\ cons_data = <<>>
         /\ number_cons_entries = 0
         /\ StoreIsEntries

\* a run that met a malformed line in a later section, with records stored
C10_Witness ==
    /\ pc = "exit"
    /\ status = "failure"
    /\ bad > 0
    /\ sec >= 2
    /\ lock_data # <<>>

\* C11: with a caller filter, the rows of the report are, in order, the
\* entries of the rendered range whose first frame equals the filter string
\* exactly: no other entry is rendered and none of these is dropped.
C11_FilterExact ==
    (Reported /\ caller # NULL) =>
      LET rows == Rows(out)
          kept == SelectSeq([i \in 1..number_cons_entries |-> cons_data[i]],
                            MatchesCaller)
      IN  /\ \A k \in 1..Len(rows) : FirstFrame(rows[k].text) = caller
          /\ Len(rows) = Len(kept)
          /\ \A k \in 1..Len(rows) :
               /\ rows[k].text = kept[k].called_from
               /\ rows[k].data[4] = kept[k].data[ACQ_DATA_HOLD_COUNT]
               /\ rows[k].data[1] = kept[k].data[HD_DATA_HOLD_COUNT]

\* a report for caller "g" with a row, and an entry of "gh" in the rendered
\* range that is not in it
C11_Witness ==
    /\ Reported
    /\ caller = <<103>>
    /\ Len(Rows(out)) >= 1
    /\ \E i \in 1..number_cons_entries :
         FirstFrame(cons_data[i].called_from) = <<103, 104>>

\* C12: the consolidated count, average and max of a key are what folding
\* its stack records gives in every order (stated for the keys after the one
\* of the first record of the sorted store, whose records all reach the fold).
C12_FoldOrderFree ==
    pc = "dump" =>
      \A i \in 1..number_cons_entries :
        cons_data[i].called_from # lock_data[1].called_from =>
          \A p \in EveryOrder(RecordsOf(lock_data, cons_data[i].called_from)) :
            FoldRecords([called_from |-> cons_data[i].called_from,
                         data |-> ZeroData], p).data = cons_data[i].data

\* C13: read_data ends on every input.  A pass of its loop at the end of the
\* file that continues and leaves the locals as they were is followed by the
\* same pass for ever, so no state admits such a pass.
C13_ReadDataTerminates ==
    pc = "read" =>
      \A c \in Inputs : \A g \in GarbageFor(c) :
        LET r == read_data_iter(rd, lock_data, c.lines, stack_depth,
                                SectionIndex[sec], g)
        IN  ~(/\ c.lines = <<>>
              /\ c.eof
              /\ r.branch \notin {"end", "malformed"}
              /\ r.l = rd
              /\ r.lock = lock_data)

\* C14: in every interleaving of the parent, the supervising child, the
\* tracer and the workload, execute_command returns to main only after both
\* the workload and the tracer have exited, and the tracer is sent its SIGINT
\* only after the workload has completed; a SIGINT that reaches the
\* supervising child before its handlers are installed does not let the
\* parent go on while the tracer is still to finish.
C14_ReturnsAfterBoth ==
    /\ parent = "returned" => (workload = "exited" /\ tracer = "exited")
    /\ sigint_tracer => workload = "exited"

====
